---- MODULE Spec2Model ----
(***************************************************************************)
(* copilot-proxy: the token lifecycle manager (TokenSource.Start, refresh, *)
(* Ready, Token) and the authenticated proxy path (stripPrefix,            *)
(* verifyAccessToken, NewProxy, CustomHeaders), modelled from the          *)
(* complete revision of the proxy.  Time is counted in whole seconds, the  *)
(* resolution of time.Now().Unix() that Ready() compares against.          *)
(***************************************************************************)
EXTENDS Integers, Sequences, FiniteSets, TLC

\* ---------------------------------------------------------------- bounds
\* The clock stops advancing at MaxTime seconds.
MaxTime == 10

\* Calls made on one StatusCodeTracker.
MaxCalls == 4

\* Seconds the revision src/main.go is run for.
MainGoMaxTime == 6

\* ------------------------------------------------------ program constants
TickerPeriod == 10
RetryDelay == 5
RefreshMargin == 10
StatusOK == 200
StatusUnauthorized == 401
StatusNotFound == 404
StatusServiceUnavailable == 503

\* Args.OAuthToken, the long-lived credential.
OAuthToken == "oauth"
\* Args.BasePath, as path segments ("/api/v1").
BasePath == <<"api", "v1">>

\* A nil channel.
Nil == -1

\* sinceReturn stops counting one second past the retry delay.
SinceCap == RetryDelay + 1

\* ------------------------------------------------------------ input sets
\* Values of Args.AccessToken ("" disables the access check).
AccessTokens == {"", "secret"}
\* Token strings the issuance endpoint hands out.
TokenValues == {"t1", "t2"}
\* expires_at returned by the issuance endpoint, relative to the response time.
ExpiresOffsets == {0, 3}
\* An expires_at beyond every instant the clock reaches.
FarExpiry == 1000
\* refresh_in returned by the issuance endpoint.
RefreshIns == {5, 13}
\* The sets of fields a 200 JSON object may carry.
FieldSets == {{"token", "expires_at", "refresh_in"}, {"expires_at", "refresh_in"},
              {"token", "refresh_in"}, {"token", "expires_at"}, {}}
\* Authorization headers a client may send (<<>> is no header).
ClientAuths == {<<>>, <<"Bearer secret">>, <<"Bearer wrong">>, <<"secret">>}
\* Request paths routed under the base path.
ClientPaths == {<<"api", "v1", "chat">>}
\* Status codes the upstream answers with (502 is the reverse proxy's own
\* answer when the upstream cannot be reached).
UpstreamCodes == {200, 502}

VARIABLES
    now,          \* wall clock, seconds
    apiToken,     \* ts.apiToken
    accessToken,  \* Args.AccessToken
    pc,           \* position of Start: "select", "refresh", "stopped"
    timeout,      \* Start's timeout channel: Nil or the instant it fires
    retry,        \* Start's retry channel: Nil or the instant it fires
    first,        \* Start's first channel: TRUE while non-nil (closed, so readable)
    tickPending,  \* a tick is buffered in ticker.C
    nextTick,     \* seconds until the ticker's next tick
    cancelled,    \* ctx.Done() is closed
    lastEvent,    \* the select case Start took last
    lastErr,      \* result of the last completed refresh
    lastBody,     \* what the issuance endpoint answered to it
    sinceReturn,  \* seconds since the last refresh returned (counted up to SinceCap)
    req,          \* the request being served by the API handler
    tracker,      \* a StatusCodeTracker, the calls made on it and those it forwarded
    mainGo        \* the revision src/main.go: its token source and a request

schedVars == <<pc, timeout, retry, first, tickPending, nextTick, cancelled,
               lastEvent, lastErr, lastBody, sinceReturn>>
vars == <<now, apiToken, accessToken, pc, timeout, retry, first, tickPending,
          nextTick, cancelled, lastEvent, lastErr, lastBody, sinceReturn, req, tracker, mainGo>>

\* ----------------------------------------------------------- token store
\* The zero APIToken.
ZeroToken == [ExpiresAt |-> 0, RefreshIn |-> 0, Token |-> ""]

\* ts.ready() taking a token that expires this very second for valid.
readyInclusive(tok, t) == tok.ExpiresAt >= t

\* ts.ready(): ts.apiToken.ExpiresAt > time.Now().Unix()
ready(tok, t) == tok.ExpiresAt > t

\* ts.Ready()
Ready == ready(apiToken, now)

\* ts.Token()
Token == apiToken.Token

\* -------------------------------------------------------------- exchange
\* Responses of the token-issuance endpoint: a transport error, a non-200
\* status, or a 200 whose body is not JSON, is a JSON object with a field of
\* the wrong type, or is a JSON object carrying some of the three fields.
Bodies(t) ==
    {[kind |-> "garbage"]}
    \cup [kind : {"object"}, has : FieldSets, badType : {TRUE, FALSE}, token : {"t1"},
          expires_at : {FarExpiry}, refresh_in : {13}]
    \cup [kind : {"object"}, has : {{"token", "expires_at", "refresh_in"}}, badType : {FALSE},
          token : TokenValues, expires_at : {t + d : d \in ExpiresOffsets} \cup {FarExpiry},
          refresh_in : RefreshIns]

Responses(t) ==
    {[err |-> TRUE, status |-> 0, body |-> [kind |-> "garbage"]]}
    \cup {[err |-> FALSE, status |-> 500, body |-> [kind |-> "garbage"]]}
    \cup [err : {FALSE}, status : {StatusOK}, body : Bodies(t)]

\* The shape of an answer as the claims name it: no answer (transport error
\* or cancelled context), a non-200 status, or a 200 whose body is not JSON
\* ("garbage"), has a field of the wrong type ("badtype"), lacks one of the
\* three fields ("partial") or carries all three ("full").
Shape(rsp, ctxDone) ==
    IF ctxDone \/ rsp.err THEN "none"
    ELSE IF rsp.status # StatusOK THEN "status"
    ELSE IF rsp.body.kind # "object" THEN "garbage"
    ELSE IF rsp.body.badType THEN "badtype"
    ELSE IF rsp.body.has # {"token", "expires_at", "refresh_in"} THEN "partial"
    ELSE "full"

\* json.Unmarshal(data, apiToken) into a zero APIToken: a field absent from
\* the object keeps its zero value.
Unmarshal(body) ==
    IF body.kind # "object" \/ body.badType
    THEN [err |-> TRUE, tok |-> ZeroToken]
    ELSE [err |-> FALSE,
          tok |-> [ExpiresAt |-> IF "expires_at" \in body.has THEN body.expires_at ELSE 0,
                   RefreshIn |-> IF "refresh_in" \in body.has THEN body.refresh_in ELSE 0,
                   Token |-> IF "token" \in body.has THEN body.token ELSE ""]]

\* ts.refresh(ctx, &apiToken): the error kind ("ok" for nil) and the decoded token.
refresh(rsp, ctxDone) ==
    IF ctxDone \/ rsp.err THEN [err |-> "transport", tok |-> ZeroToken]
    ELSE IF rsp.status # StatusOK THEN [err |-> "status", tok |-> ZeroToken]
    ELSE IF Unmarshal(rsp.body).err THEN [err |-> "decode", tok |-> ZeroToken]
    ELSE [err |-> "ok", tok |-> Unmarshal(rsp.body).tok]

\* time.After(d seconds): a channel that becomes readable when d seconds have
\* passed, at once when d is not positive.  A timer channel is held as the
\* seconds left until it is readable.
After(d) == IF d > 0 THEN d ELSE 0

\* A timer channel is readable.
Fired(ch) == ch = 0

\* A timer channel one second later.
Elapse(ch) == IF ch > 0 THEN ch - 1 ELSE ch

\* ------------------------------------------------------------ proxy path
\* http.Header: each name maps to its list of values.
HeaderNames == {"Authorization", "User-Agent"}

\* Header.Get: the first value of the name, "" when there is none.
Get(h, k) == IF h[k] = <<>> THEN "" ELSE h[k][1]

\* Header.Set: the name's values are replaced by the one value.
Set(h, k, v) == [h EXCEPT ![k] = <<v>>]

\* Header.Add: the value is appended to the name's values.
Add(h, k, v) == [h EXCEPT ![k] = Append(@, v)]

\* CustomHeaders keeping an Authorization header the request already has.
CustomHeadersKeep(h) ==
    Set(IF h["Authorization"] = <<>> THEN Set(h, "Authorization", "Bearer " \o Token) ELSE h,
        "User-Agent", "vscode-chat/dev")

\* CustomHeaders adding its Authorization value instead of setting it.
CustomHeadersAdd(h) ==
    Set(Add(h, "Authorization", "Bearer " \o Token), "User-Agent", "vscode-chat/dev")

\* ts.CustomHeaders(header)
CustomHeaders(h) ==
    Set(Set(h, "Authorization", "Bearer " \o Token), "User-Agent", "vscode-chat/dev")

\* The request ts.refresh sends: a GET of OAuthTokenEndpoint.
RefreshRequest ==
    [url |-> "OAuthTokenEndpoint",
     header |-> [k \in HeaderNames |->
                   IF k = "Authorization" THEN <<"Bearer " \o OAuthToken>>
                   ELSE <<"vscode-chat/dev">>]]

\* The headers of a client's request with Authorization values a.
ClientHeader(a) == [k \in HeaderNames |-> IF k = "Authorization" THEN a ELSE <<"curl">>]

\* A request as it enters the mux: nothing has run, nothing is written.
NewReq(p, a) ==
    [pc |-> "serving", path |-> p,
     header |-> ClientHeader(a),
     steps |-> <<>>, ready |-> "unchecked", status |-> 0, out |-> <<>>]

IdleReq == [NewReq(<<>>, <<>>) EXCEPT !.pc = "idle"]

\* http.Error(w, msg, code): the response is written and the handler returns.
Error(r, code) == [r EXCEPT !.status = code, !.pc = "done"]

\* strings.TrimPrefix on paths.
TrimPrefix(p, prefix) ==
    IF Len(p) >= Len(prefix) /\ SubSeq(p, 1, Len(prefix)) = prefix
    THEN SubSeq(p, Len(prefix) + 1, Len(p))
    ELSE p

\* A middleware wraps the handler next: a handler is the list of the stages a
\* request runs through.  verifyAccessToken("") returns next itself.
stripPrefix(next) == <<"stripPrefix">> \o next

verifyAccessToken(token, next) ==
    IF token = "" THEN next ELSE <<"verifyAccessToken">> \o next

\* The check letting a request without an Authorization header through.
deniedIfPresent(token, r) ==
    /\ Get(r.header, "Authorization") # ""
    /\ Get(r.header, "Authorization") # "Bearer " \o token

\* The check of the handler verifyAccessToken(token) returns:
\* authHeader != "Bearer "+token
denied(token, r) == Get(r.header, "Authorization") # "Bearer " \o token

Wrap(mw, next) ==
    IF mw = "stripPrefix" THEN stripPrefix(next) ELSE verifyAccessToken(accessToken, next)

\* applyMiddlewares: for i := len(middlewares) - 1; i >= 0; i-- (indices from 1 here).
RECURSIVE applyFrom(_, _, _)
applyFrom(handler, mws, i) ==
    IF i < 1 THEN handler
    ELSE applyFrom(Wrap(mws[i], handler), mws, i - 1)

\* applyMiddlewares wrapping from the first middleware to the last.
RECURSIVE applyUpFrom(_, _, _)
applyUpFrom(handler, mws, i) ==
    IF i > Len(mws) THEN handler
    ELSE applyUpFrom(Wrap(mws[i], handler), mws, i + 1)

applyMiddlewaresForward(handler, mws) == applyUpFrom(handler, mws, 1)

applyMiddlewares(handler, mws) == applyFrom(handler, mws, Len(mws))

\* main: the middlewares and the handler mounted under the base path.
middlewares == <<"stripPrefix", "verifyAccessToken">>

apiHandler == applyMiddlewares(<<"proxy">>, middlewares)

\* The handler of NewProxy without the return after its 503.
ProxyHandlerNoReturn(r) ==
    LET r1 == [r EXCEPT !.steps = Append(@, "ready"),
                        !.ready = IF Ready THEN "valid" ELSE "invalid"]
    IN  IF ~Ready
        THEN [r1 EXCEPT !.status = StatusServiceUnavailable, !.pc = "rewrite"]
        ELSE [r1 EXCEPT !.pc = "rewrite"]

\* The handler NewProxy returns, up to proxy.ServeHTTP: the readiness check.
ProxyHandler(r) ==
    LET r1 == [r EXCEPT !.steps = Append(@, "ready"),
                        !.ready = IF Ready THEN "valid" ELSE "invalid"]
    IN  IF ~Ready
        THEN Error(r1, StatusServiceUnavailable)
        ELSE [r1 EXCEPT !.pc = "rewrite"]

\* ServeHTTP of a handler on request r.
RECURSIVE Serve(_, _)
Serve(h, r) ==
    IF Head(h) = "stripPrefix"
    THEN LET p == TrimPrefix(r.path, BasePath)
             r1 == [r EXCEPT !.steps = Append(@, "strip")]
         IN  IF Len(p) < Len(r.path)
             THEN Serve(Tail(h), [r1 EXCEPT !.path = p])
             ELSE Error(r1, StatusNotFound)
    ELSE IF Head(h) = "verifyAccessToken"
    THEN LET r1 == [r EXCEPT !.steps = Append(@, "verify")]
         IN  IF denied(accessToken, r)
             THEN Error(r1, StatusUnauthorized)
             ELSE Serve(Tail(h), r1)
    ELSE ProxyHandler(r)

\* The path of the readiness endpoint and the Authorization headers its
\* callers send; the handler reads neither.
ReadyPath == <<"ready">>
ReadyAuths == {<<>>, <<"Bearer wrong">>}

\* main: the handler of /ready.
ReadyHandler(r) ==
    LET r1 == [r EXCEPT !.steps = Append(@, "ready"),
                        !.ready = IF Ready THEN "valid" ELSE "invalid"]
    IN  IF Ready
        THEN [r1 EXCEPT !.status = StatusOK, !.pc = "done"]
        ELSE Error(r1, StatusServiceUnavailable)

\* ---------------------------------------------------- status code tracker
\* Status codes a handler passes to WriteHeader.
TrackerCodes == {103, StatusOK, 500}

\* TrackStatusCode(w): code 0; calls and underlying record the calls made on
\* the tracker and the calls it made on the embedded ResponseWriter.
TrackStatusCode == [code |-> 0, calls |-> <<>>, underlying |-> <<>>]

WriteHeaderCall(c) == [op |-> "WriteHeader", code |-> c]
WriteCall == [op |-> "Write", code |-> 0]

\* WriteHeader recording and forwarding every call.
WriteHeaderUnguarded(c) ==
    /\ Len(tracker.calls) < MaxCalls
    /\ tracker' = [code |-> c,
                   calls |-> Append(tracker.calls, WriteHeaderCall(c)),
                   underlying |-> Append(tracker.underlying, WriteHeaderCall(c))]
    /\ UNCHANGED <<now, apiToken, accessToken, schedVars, req, mainGo>>

\* func (s *StatusCodeTracker) WriteHeader(code int)
WriteHeader(c) ==
    /\ Len(tracker.calls) < MaxCalls
    /\ tracker' = IF tracker.code # 0
                  THEN [tracker EXCEPT !.calls = Append(@, WriteHeaderCall(c))]
                  ELSE [code |-> c,
                        calls |-> Append(tracker.calls, WriteHeaderCall(c)),
                        underlying |-> Append(tracker.underlying, WriteHeaderCall(c))]
    /\ UNCHANGED <<now, apiToken, accessToken, schedVars, req, mainGo>>

\* func (s *StatusCodeTracker) Write(b []byte)
Write ==
    /\ Len(tracker.calls) < MaxCalls
    /\ tracker' = [code |-> IF tracker.code = 0 THEN StatusOK ELSE tracker.code,
                   calls |-> Append(tracker.calls, WriteCall),
                   underlying |-> Append(tracker.underlying, WriteCall)]
    /\ UNCHANGED <<now, apiToken, accessToken, schedVars, req, mainGo>>

\* ------------------------------------------------ the revision src/main.go
\* main: the token source after NewTokenSource, start about to enter its
\* loop, no request yet.  mu is the sync.Mutex of the TokenSource; h is the
\* position of the request being handled ("Ready" and "Token": about to call
\* that method), route the handler it was routed to, waited the seconds it
\* has spent blocked in mu.Lock().
MainGoStart ==
    [now |-> 0, apiToken |-> ZeroToken, mu |-> "unlocked", pc |-> "select",
     timeout |-> Nil, retry |-> Nil, first |-> TRUE,
     h |-> "idle", route |-> "none", status |-> 0, waited |-> 0]

MainGoFrame == UNCHANGED <<now, apiToken, accessToken, schedVars, req, tracker>>

\* start takes a case of its select and calls ts.refresh, which begins with
\* ts.mu.Lock(); the context is context.Background(), never done.  The
\* methods called by the handlers hold mu only within one step, so the
\* lock is free here.
MainGoSelect ==
    /\ mainGo.pc = "select" /\ mainGo.mu = "unlocked"
    /\ \/ Fired(mainGo.timeout) /\ mainGo' = [mainGo EXCEPT !.timeout = Nil,
                                                            !.pc = "refresh", !.mu = "refresh"]
       \/ Fired(mainGo.retry) /\ mainGo' = [mainGo EXCEPT !.retry = Nil,
                                                          !.pc = "refresh", !.mu = "refresh"]
       \/ mainGo.first /\ mainGo' = [mainGo EXCEPT !.first = FALSE,
                                                    !.pc = "refresh", !.mu = "refresh"]
    /\ MainGoFrame

\* http.DefaultClient.Do returns and ts.refresh runs to its end: the token is
\* stored on success, the deferred ts.mu.Unlock() runs, and start arms
\* timeout or retry.
MainGoRefreshReturn ==
    /\ mainGo.pc = "refresh"
    /\ \E rsp \in Responses(mainGo.now) :
          LET r == refresh(rsp, FALSE)
          IN  mainGo' = IF r.err # "ok"
                        THEN [mainGo EXCEPT !.retry = After(RetryDelay),
                                            !.pc = "select", !.mu = "unlocked"]
                        ELSE [mainGo EXCEPT !.apiToken = r.tok,
                                            !.timeout = After(r.tok.RefreshIn - RefreshMargin),
                                            !.pc = "select", !.mu = "unlocked"]
    /\ MainGoFrame

\* A request reaches ts.ServeHTTP (past the middlewares) or the handler of
\* /ready; either begins with a call of ts.Ready().
MainGoArrive ==
    /\ mainGo.h \in {"idle", "done"}
    /\ \E rt \in {"api", "ready"} :
          mainGo' = [mainGo EXCEPT !.h = "Ready", !.route = rt, !.status = 0, !.waited = 0]
    /\ MainGoFrame

\* ts.Ready(): ts.mu.Lock(); defer ts.mu.Unlock(); return ts.ready().  The
\* handler of /ready answers; ServeHTTP answers 503 or goes on to ts.Token().
MainGoReady ==
    /\ mainGo.h = "Ready" /\ mainGo.mu = "unlocked"
    /\ mainGo' = IF ~ready(mainGo.apiToken, mainGo.now)
                 THEN [mainGo EXCEPT !.h = "done", !.status = StatusServiceUnavailable]
                 ELSE IF mainGo.route = "ready"
                 THEN [mainGo EXCEPT !.h = "done", !.status = StatusOK]
                 ELSE [mainGo EXCEPT !.h = "Token"]
    /\ MainGoFrame

\* ts.Token(): ts.mu.Lock(); defer ts.mu.Unlock(); return ts.apiToken.Token;
\* then proxy.ServeHTTP sends the request upstream.
MainGoToken ==
    /\ mainGo.h = "Token" /\ mainGo.mu = "unlocked"
    /\ mainGo' = [mainGo EXCEPT !.h = "upstream"]
    /\ MainGoFrame

\* The upstream answers.
MainGoUpstream ==
    /\ mainGo.h = "upstream"
    /\ \E c \in UpstreamCodes : mainGo' = [mainGo EXCEPT !.h = "done", !.status = c]
    /\ MainGoFrame

\* One second passes, unless start can take a case of its select; a request
\* inside ts.mu.Lock() while ts.refresh holds the mutex has waited one second
\* more.
MainGoTick ==
    /\ mainGo.now < MainGoMaxTime
    /\ ~(mainGo.pc = "select"
           /\ (mainGo.first \/ Fired(mainGo.timeout) \/ Fired(mainGo.retry)))
    /\ mainGo' = [mainGo EXCEPT
                    !.now = @ + 1,
                    !.timeout = Elapse(@),
                    !.retry = Elapse(@),
                    !.waited = IF mainGo.h \in {"Ready", "Token"} /\ mainGo.mu = "refresh"
                               THEN @ + 1 ELSE @]
    /\ MainGoFrame

MainGoNext ==
    \/ MainGoSelect
    \/ MainGoRefreshReturn
    \/ MainGoArrive
    \/ MainGoReady
    \/ MainGoToken
    \/ MainGoUpstream
    \/ MainGoTick

\* ------------------------------------------------------------- scheduler

\* Start without close(first): the first channel is never readable.
InitNoFirst ==
    /\ now = 0
    /\ apiToken = ZeroToken
    /\ accessToken \in AccessTokens
    /\ pc = "select"
    /\ timeout = Nil
    /\ retry = Nil
    /\ first = FALSE
    /\ tickPending = FALSE
    /\ nextTick = TickerPeriod
    /\ cancelled = FALSE
    /\ lastEvent = "none"
    /\ lastErr = "none"
    /\ lastBody = "none"
    /\ sinceReturn = 0
    /\ req = IdleReq
    /\ tracker = TrackStatusCode
    /\ mainGo = MainGoStart

Init ==
    /\ now = 0
    /\ apiToken = ZeroToken
    /\ accessToken \in AccessTokens
    /\ pc = "select"
    /\ timeout = Nil
    /\ retry = Nil
    /\ first = TRUE
    /\ tickPending = FALSE
    /\ nextTick = TickerPeriod
    /\ cancelled = FALSE
    /\ lastEvent = "none"
    /\ lastErr = "none"
    /\ lastBody = "none"
    /\ sinceReturn = 0
    /\ req = IdleReq
    /\ tracker = TrackStatusCode
    /\ mainGo = MainGoStart

\* The readiness test skipping the refresh while a timer is still pending.
AfterSelectUnlessTimer ==
    pc' = IF Ready \/ timeout > 0 \/ retry > 0 THEN "select" ELSE "refresh"

\* After the select: `if ts.Ready() { continue }`, else the refresh starts.
AfterSelect ==
    pc' = IF Ready THEN "select" ELSE "refresh"

\* The ctx.Done() case leaving the select instead of Start.
SelectDoneBreak ==
    /\ pc = "select" /\ cancelled
    /\ lastEvent' = "done"
    /\ AfterSelect
    /\ UNCHANGED <<now, apiToken, accessToken, timeout, retry, first, tickPending,
                   nextTick, cancelled, lastErr, lastBody, sinceReturn, req,
                   tracker, mainGo>>

\* case <-ctx.Done(): return
SelectDone ==
    /\ pc = "select" /\ cancelled
    /\ pc' = "stopped"
    /\ lastEvent' = "done"
    /\ UNCHANGED <<now, apiToken, accessToken, timeout, retry, first, tickPending,
                   nextTick, cancelled, lastErr, lastBody, sinceReturn, req,
                   tracker, mainGo>>

\* case <-timeout: timeout = nil
SelectTimeout ==
    /\ pc = "select" /\ Fired(timeout)
    /\ timeout' = Nil
    /\ lastEvent' = "timeout"
    /\ AfterSelect
    /\ UNCHANGED <<now, apiToken, accessToken, retry, first, tickPending, nextTick,
                   cancelled, lastErr, lastBody, sinceReturn, req,
                   tracker, mainGo>>

\* case <-retry: retry = nil
SelectRetry ==
    /\ pc = "select" /\ Fired(retry)
    /\ retry' = Nil
    /\ lastEvent' = "retry"
    /\ AfterSelect
    /\ UNCHANGED <<now, apiToken, accessToken, timeout, first, tickPending, nextTick,
                   cancelled, lastErr, lastBody, sinceReturn, req,
                   tracker, mainGo>>

\* case <-first: first = nil
SelectFirst ==
    /\ pc = "select" /\ first
    /\ first' = FALSE
    /\ lastEvent' = "first"
    /\ AfterSelect
    /\ UNCHANGED <<now, apiToken, accessToken, timeout, retry, tickPending, nextTick,
                   cancelled, lastErr, lastBody, sinceReturn, req,
                   tracker, mainGo>>

\* case <-ticker.C:
SelectTick ==
    /\ pc = "select" /\ tickPending
    /\ tickPending' = FALSE
    /\ lastEvent' = "tick"
    /\ AfterSelect
    /\ UNCHANGED <<now, apiToken, accessToken, timeout, retry, first, nextTick,
                   cancelled, lastErr, lastBody, sinceReturn, req,
                   tracker, mainGo>>

\* The loop body storing the refresh's token whether or not it failed.
AfterRefreshClobber(r) ==
    /\ lastErr' = r.err
    /\ sinceReturn' = 0
    /\ pc' = "select"
    /\ apiToken' = r.tok
    /\ IF r.err # "ok"
       THEN retry' = After(RetryDelay) /\ timeout' = timeout
       ELSE timeout' = After(r.tok.RefreshIn - RefreshMargin) /\ retry' = retry

\* The loop body arming the retry with time.After(5), five nanoseconds.
AfterRefreshNoUnit(r) ==
    /\ lastErr' = r.err
    /\ sinceReturn' = 0
    /\ pc' = "select"
    /\ IF r.err # "ok"
       THEN /\ retry' = After(0)
            /\ UNCHANGED <<apiToken, timeout>>
       ELSE /\ apiToken' = r.tok
            /\ timeout' = After(r.tok.RefreshIn - RefreshMargin)
            /\ retry' = retry

\* The loop body returning from Start when the refresh failed.
AfterRefreshReturnOnError(r) ==
    /\ lastErr' = r.err
    /\ sinceReturn' = 0
    /\ IF r.err # "ok"
       THEN /\ pc' = "stopped"
            /\ UNCHANGED <<apiToken, timeout, retry>>
       ELSE /\ pc' = "select"
            /\ apiToken' = r.tok
            /\ timeout' = After(r.tok.RefreshIn - RefreshMargin)
            /\ retry' = retry

\* The rest of the loop body once ts.refresh returns r.
AfterRefresh(r) ==
    /\ lastErr' = r.err
    /\ sinceReturn' = 0
    /\ pc' = "select"
    /\ IF r.err # "ok"
       THEN /\ retry' = After(RetryDelay)
            /\ UNCHANGED <<apiToken, timeout>>
       ELSE /\ apiToken' = r.tok
            /\ timeout' = After(r.tok.RefreshIn - RefreshMargin)
            /\ retry' = retry

\* ts.refresh returns and the loop body runs to its end.
RefreshReturn ==
    /\ pc = "refresh"
    /\ \E rsp \in Responses(now) :
          /\ AfterRefresh(refresh(rsp, cancelled))
          /\ lastBody' = Shape(rsp, cancelled)
    /\ UNCHANGED <<now, accessToken, first, tickPending, nextTick, cancelled,
                   lastEvent, req,
                   tracker, mainGo>>

\* The context passed to Start is cancelled.
Cancel ==
    /\ ~cancelled
    /\ cancelled' = TRUE
    /\ UNCHANGED <<now, apiToken, accessToken, pc, timeout, retry, first, tickPending,
                   nextTick, lastEvent, lastErr, lastBody, sinceReturn, req,
                   tracker, mainGo>>

\* Start is blocked in its select with a case it can take.
SelectEnabled ==
    pc = "select" /\ (cancelled \/ Fired(timeout) \/ Fired(retry) \/ first \/ tickPending)

\* One second passes; the ticker delivers a tick every TickerPeriod seconds
\* into its one-slot channel (a tick that finds the slot full is dropped).
\* A goroutine whose select has a readable case runs within the second, so
\* the clock does not advance past an enabled select; it advances freely
\* while ts.refresh waits for the network and while a request is in flight.
Tick ==
    /\ now < MaxTime
    /\ ~SelectEnabled
    /\ now' = now + 1
    /\ timeout' = Elapse(timeout)
    /\ retry' = Elapse(retry)
    /\ sinceReturn' = IF sinceReturn < SinceCap THEN sinceReturn + 1 ELSE sinceReturn
    /\ IF pc = "stopped"
       THEN UNCHANGED <<tickPending, nextTick>>
       ELSE IF nextTick = 1
       THEN tickPending' = TRUE /\ nextTick' = TickerPeriod
       ELSE tickPending' = tickPending /\ nextTick' = nextTick - 1
    /\ UNCHANGED <<apiToken, accessToken, pc, first, cancelled, lastEvent, lastErr,
                   lastBody, req,
                   tracker, mainGo>>

\* A request under the base path arrives and runs through the API handler up
\* to the point where it is answered or the reverse proxy takes over.
ServeAPI ==
    /\ req.pc \in {"idle", "done"}
    /\ \E p \in ClientPaths, a \in ClientAuths : req' = Serve(apiHandler, NewReq(p, a))
    /\ UNCHANGED <<now, apiToken, accessToken, pc, timeout, retry, first, tickPending,
                   nextTick, cancelled, lastEvent, lastErr, lastBody, sinceReturn,
                   tracker, mainGo>>

\* A request for /ready arrives and is answered.
ServeReady ==
    /\ req.pc \in {"idle", "done"}
    /\ \E a \in ReadyAuths : req' = ReadyHandler(NewReq(ReadyPath, a))
    /\ UNCHANGED <<now, apiToken, accessToken, pc, timeout, retry, first, tickPending,
                   nextTick, cancelled, lastEvent, lastErr, lastBody, sinceReturn,
                   tracker, mainGo>>

\* The reverse proxy's Rewrite hook: r.SetURL(upstream); ts.CustomHeaders(r.Out.Header),
\* r.Out carrying the inbound headers; the outbound request is then sent.
Rewrite ==
    /\ req.pc = "rewrite"
    /\ req' = [req EXCEPT !.out = <<CustomHeaders(req.header)>>,
                          !.steps = Append(@, "forward"),
                          !.pc = "upstream"]
    /\ UNCHANGED <<now, apiToken, accessToken, pc, timeout, retry, first, tickPending,
                   nextTick, cancelled, lastEvent, lastErr, lastBody, sinceReturn,
                   tracker, mainGo>>

\* The upstream's answer is written back to the client.
UpstreamResponse ==
    /\ req.pc = "upstream"
    /\ \E code \in UpstreamCodes :
          req' = [req EXCEPT !.status = code, !.pc = "done"]
    /\ UNCHANGED <<now, apiToken, accessToken, pc, timeout, retry, first, tickPending,
                   nextTick, cancelled, lastEvent, lastErr, lastBody, sinceReturn,
                   tracker, mainGo>>

Next ==
    \/ ServeAPI
    \/ ServeReady
    \/ Rewrite
    \/ UpstreamResponse
    \/ SelectDone
    \/ SelectTimeout
    \/ SelectRetry
    \/ SelectFirst
    \/ SelectTick
    \/ RefreshReturn
    \/ Cancel
    \/ Tick

Spec == Init /\ [][Next]_vars

\* The scheduler on its own: Start, the clock and the cancellation of its
\* context, with no request being served.
SelectStep == SelectDone \/ SelectTimeout \/ SelectRetry \/ SelectFirst \/ SelectTick

SchedNext ==
    \/ SelectDone
    \/ SelectTimeout
    \/ SelectRetry
    \/ SelectFirst
    \/ SelectTick
    \/ RefreshReturn
    \/ Cancel
    \/ Tick

\* Time passes; a select with a readable case is taken; a select whose
\* ctx.Done() case is readable again and again takes it in the end (Go picks
\* uniformly at random among the readable cases); a request made with a
\* cancelled context returns.  A refresh under a live context may wait for
\* ever: http.DefaultClient has no timeout.
FairSched ==
    /\ Init /\ [][SchedNext]_vars
    /\ WF_vars(Tick)
    /\ WF_vars(SelectStep)
    /\ SF_vars(SelectDone)
    /\ WF_vars(cancelled /\ RefreshReturn)

\* A handler calling WriteHeader and Write on one tracker in any order.
TrackerNext ==
    \/ \E c \in TrackerCodes : WriteHeader(c)
    \/ Write

TrackerSpec == Init /\ [][TrackerNext]_vars

\* The revision src/main.go running on its own.
MainGoSpec == Init /\ [][MainGoNext]_vars

TypeOK ==
    /\ now \in 0..MaxTime
    /\ pc \in {"select", "refresh", "stopped"}
    /\ timeout \in {Nil} \cup 0..3
    /\ retry \in {Nil} \cup 0..RetryDelay
    /\ nextTick \in 1..TickerPeriod
    /\ sinceReturn \in 0..SinceCap
    /\ req.pc \in {"idle", "rewrite", "upstream", "done"}

\* ----------------------------------------------------------------- claims
\* The elements of a sequence.
Range(s) == {s[i] : i \in DOMAIN s}

\* s is an initial segment of t.
IsPrefix(s, t) == Len(s) <= Len(t) /\ SubSeq(t, 1, Len(s)) = s

\* req was routed to the handler of /ready.
OnReadyRoute == req.path = ReadyPath

\* The outbound request of req has been sent upstream.
Forwarded == req.out # <<>>

\* The Authorization values of the outbound request.
OutAuth == req.out[1]["Authorization"]

\* C1: a request whose readiness check finds the token not valid is answered
\* 503 and is never forwarded; a request is forwarded only after its own
\* readiness check found a valid token; and no step of a request touches the
\* scheduler, so no exchange is ever made on behalf of a request.
C1_NotReadyNeverForwarded ==
    /\ [](req.ready = "invalid" =>
            req.pc = "done" /\ req.status = StatusServiceUnavailable /\ ~Forwarded)
    /\ []((Forwarded \/ req.pc \in {"rewrite", "upstream"}) => req.ready = "valid")
    /\ [][req' # req => UNCHANGED <<schedVars, apiToken>>]_vars

C1_Witness ==
    /\ req.ready = "invalid" /\ req.status = StatusServiceUnavailable
    /\ pc = "select" /\ retry > 0

\* C2: when a request is rewritten, its outbound Authorization header is the
\* single value "Bearer " followed by the token the store holds at that
\* moment, whatever Authorization the client sent.
C2_OutboundBearer ==
    [][(req.pc = "rewrite" /\ req'.pc = "upstream") =>
          req'.out[1]["Authorization"] = <<"Bearer " \o apiToken.Token>>]_vars

C2_Witness ==
    /\ req.pc = "upstream"
    /\ req.header["Authorization"] = <<"Bearer wrong">>
    /\ OutAuth = <<"Bearer t2">>

\* C3: with a protecting token configured, a request is answered 401 without
\* reaching the next handler exactly when its Authorization header is not
\* "Bearer <token>" (no header included); with none configured every
\* request reaches the next handler.
C3_AccessGate ==
    (req.pc # "idle" /\ ~OnReadyRoute) =>
        IF accessToken = ""
        THEN "verify" \notin Range(req.steps) /\ "ready" \in Range(req.steps)
        ELSE IF req.header["Authorization"] = <<"Bearer " \o accessToken>>
        THEN "ready" \in Range(req.steps) /\ req.status # StatusUnauthorized
        ELSE /\ req.status = StatusUnauthorized /\ req.pc = "done"
             /\ "ready" \notin Range(req.steps) /\ ~Forwarded

C3_Witness ==
    /\ accessToken # "" /\ req.header["Authorization"] = <<>>
    /\ req.status = StatusUnauthorized

\* C4: the steps of a request run in the order prefix stripping, bearer
\* check, readiness check, forwarding; a request with a wrong bearer token is
\* answered 401 without the token store being consulted, also when the token
\* is not ready; a request answered 503 is not forwarded.
C4_StepOrder ==
    /\ \/ IsPrefix(req.steps, <<"strip", "verify", "ready", "forward">>)
       \/ accessToken = "" /\ IsPrefix(req.steps, <<"strip", "ready", "forward">>)
       \/ OnReadyRoute
    /\ req.pc # "idle" => req.steps # <<>>
    /\ (req.pc # "idle" /\ ~OnReadyRoute /\ accessToken # ""
          /\ req.header["Authorization"] # <<"Bearer " \o accessToken>>)
        => req.status = StatusUnauthorized /\ req.steps = <<"strip", "verify">>
    /\ req.status = StatusServiceUnavailable =>
          req.steps[Len(req.steps)] = "ready" /\ req.pc = "done" /\ ~Forwarded

C4_Witness ==
    /\ req.status = StatusUnauthorized /\ req.steps = <<"strip", "verify">>
    /\ apiToken = ZeroToken /\ lastErr = "status"

\* The errors ts.refresh returns.
Failures == {"transport", "status", "decode"}

\* The step in which Start calls ts.refresh.
AttemptStarts == pc = "select" /\ pc' = "refresh"

\* The step in which ts.refresh returns and the loop body completes.
AttemptReturns == pc = "refresh" /\ pc' = "select"

\* C5: an exchange that fails (no answer, a non-200 status or an undecodable
\* body) leaves the stored token, value and expiry, as it was; holding at
\* every failed exchange it holds after any number of them in a row.
C5_FailedExchangeKeepsStore ==
    [][(AttemptReturns /\ lastBody' \in {"none", "status", "garbage", "badtype"}) =>
          apiToken' = apiToken]_vars

C5_Witness ==
    /\ lastBody = "badtype" /\ lastErr = "decode" /\ sinceReturn = 0
    /\ apiToken.Token = "t2" /\ apiToken.ExpiresAt > 0

\* C6 as claimed: every exchange attempt that follows a failed one starts 5
\* seconds after the failure, none earlier.
C6_RetrySpacingFixed ==
    [][(AttemptStarts /\ lastErr \in Failures) => sinceReturn = RetryDelay]_vars

\* C6 as amended: every failed attempt arms the retry timer to fire 5 seconds
\* later; the attempt that follows a failed one starts no later than 5
\* seconds after it, exactly 5 seconds after it when the retry timer starts
\* it, and earlier only when the periodic tick or a still pending
\* scheduled-refresh timer starts it.
C6_RetryTimerSpacing ==
    [][/\ (AttemptReturns /\ lastErr' \in Failures) => retry' = RetryDelay
       /\ (AttemptStarts /\ lastErr \in Failures) => sinceReturn <= RetryDelay
       /\ (AttemptStarts /\ lastErr \in Failures /\ lastEvent' = "retry") =>
              sinceReturn = RetryDelay
       /\ (AttemptStarts /\ lastErr \in Failures /\ sinceReturn < RetryDelay) =>
              lastEvent' \in {"tick", "timeout"}]_vars

C6_Witness ==
    /\ pc = "refresh" /\ lastEvent = "retry" /\ lastErr \in Failures
    /\ sinceReturn = RetryDelay

\* C7: after every write to the store that follows an exchange treated as
\* successful, the stored expiry is strictly later than the time of the
\* write, i.e. Ready() holds right after the write.
C7_WriteIsReady ==
    [][(AttemptReturns /\ lastErr' = "ok") => ready(apiToken', now')]_vars

\* C8: a 200 answer whose JSON object lacks one of token, expires_at and
\* refresh_in is a failed exchange: refresh returns an error, the store is
\* not written and the 5-second retry is armed, not the refresh timer.
C8_PartialObjectFails ==
    [][(AttemptReturns /\ lastBody' = "partial") =>
          /\ lastErr' \in Failures
          /\ apiToken' = apiToken
          /\ retry' = RetryDelay
          /\ timeout' = timeout]_vars

\* C9: the timer armed after a successful exchange has a strictly positive
\* delay, and no exchange attempt starts at the very instant the preceding
\* successful exchange returned.
C9_PositiveDelayAfterSuccess ==
    [][/\ (AttemptReturns /\ lastErr' = "ok") => timeout' > 0
       /\ (AttemptStarts /\ lastErr = "ok") => sinceReturn > 0]_vars

\* C10: when the tick is taken from the ticker while the stored token is not
\* valid, the refresh starts in that iteration whatever timers are pending;
\* when it is taken while the token is valid, no refresh starts and the store
\* and both timers stay as they are.
C10_TickForcesRefresh ==
    [][(pc = "select" /\ tickPending /\ ~tickPending') =>
          IF ~ready(apiToken, now)
          THEN pc' = "refresh"
          ELSE pc' = "select" /\ UNCHANGED <<apiToken, timeout, retry>>]_vars

C10_Witness ==
    /\ pc = "refresh" /\ lastEvent = "tick"
    /\ timeout > 0 /\ apiToken.Token # ""

\* C11: unless the context is cancelled first, the first select of Start
\* takes the first channel at the instant of the start, before the ticker or
\* any timer has fired, and starts an exchange; when that exchange succeeds
\* the store holds the token of the answer and Ready() holds at the end of
\* the iteration if the answer's expiry is in the future.
C11_FirstIsExchange ==
    /\ [](lastEvent = "none" => now = 0 /\ pc = "select" /\ lastErr = "none")
    /\ [][(lastEvent = "none" /\ lastEvent' # "none" /\ ~cancelled) =>
            /\ lastEvent' = "first" /\ pc' = "refresh"
            /\ ~tickPending /\ timeout = Nil /\ retry = Nil]_vars
    /\ [][(AttemptReturns /\ lastEvent = "first" /\ lastBody' = "full") =>
            \E b \in Bodies(now) :
                /\ b.kind = "object" /\ ~b.badType
                /\ apiToken' = [ExpiresAt |-> b.expires_at, RefreshIn |-> b.refresh_in,
                                Token |-> b.token]
                /\ b.expires_at > now => apiToken'.ExpiresAt > now']_vars

C11_Witness ==
    /\ lastEvent = "first" /\ lastErr = "ok" /\ lastBody = "full"
    /\ pc = "select" /\ Ready /\ ~cancelled

\* C12: a failed exchange never ends the loop: Start stops only on
\* cancellation, after a failure it waits in its select with the retry timer
\* pending, and, time and the select being fair, it attempts the exchange
\* again; an exchange that then succeeds stores the token of the answer, so
\* that Ready() holds when the answer's expiry is in the future.
C12_FailuresContained ==
    /\ [](pc = "stopped" => cancelled)
    /\ []((lastErr \in Failures /\ pc = "select") =>
            retry >= 0 /\ retry = RetryDelay - sinceReturn)
    /\ (lastErr \in Failures /\ pc = "select" /\ ~cancelled /\ now + RetryDelay <= MaxTime)
          ~> (pc = "refresh" \/ cancelled)
    /\ [][(AttemptReturns /\ lastErr \in Failures /\ lastBody' = "full") =>
            \E b \in Bodies(now) :
                /\ b.kind = "object" /\ ~b.badType
                /\ apiToken' = [ExpiresAt |-> b.expires_at, RefreshIn |-> b.refresh_in,
                                Token |-> b.token]
                /\ b.expires_at > now => apiToken'.ExpiresAt > now']_vars

C12_Witness ==
    /\ lastErr = "ok" /\ lastBody = "full" /\ Ready /\ lastEvent = "retry"
    /\ pc = "select" /\ ~cancelled /\ now >= 2 * RetryDelay

\* C13: the status a StatusCodeTracker records is that of the first call made
\* on it (the code of a WriteHeader, 200 for a Write) and never changes; a
\* later WriteHeader changes nothing and is not forwarded, so the underlying
\* WriteHeader is called at most once.
C13_FirstStatusSticks ==
    /\ [](tracker.calls # <<>> =>
            tracker.code = IF tracker.calls[1].op = "WriteHeader"
                           THEN tracker.calls[1].code ELSE StatusOK)
    /\ [][tracker.code # 0 => tracker'.code = tracker.code]_vars
    /\ [][(tracker.calls # <<>> /\ Len(tracker'.calls) > Len(tracker.calls)
            /\ tracker'.calls[Len(tracker'.calls)].op = "WriteHeader") =>
               tracker'.underlying = tracker.underlying]_vars
    /\ [](Cardinality({i \in DOMAIN tracker.underlying :
                          tracker.underlying[i].op = "WriteHeader"}) <= 1)

C13_Witness ==
    /\ Len(tracker.calls) >= 3
    /\ tracker.calls[1] = WriteHeaderCall(StatusOK)
    /\ tracker.calls[2] = WriteHeaderCall(500)
    /\ tracker.code = StatusOK
    /\ tracker.underlying[1] = WriteHeaderCall(StatusOK)

\* A request arrives and is answered or handed to the reverse proxy.
Arrives == req.pc \in {"idle", "done"} /\ req' # req

\* C14: /ready answers 200 exactly when the stored token's expiry is strictly
\* later than the time of the check, hence 503 for the unset token and at the
\* very second of the expiry, and 503 otherwise; the store leaves the unset
\* token only by a successful exchange, and while it holds the unset token
\* /ready answers 503, every request reaching the proxy handler is answered
\* 503 and no request is in flight to the upstream.
C14_ReadyEndpoint ==
    /\ [][(Arrives /\ req'.path = ReadyPath) =>
            /\ req'.pc = "done" /\ req'.out = <<>>
            /\ req'.status \in {StatusOK, StatusServiceUnavailable}
            /\ req'.status = StatusOK <=> apiToken.ExpiresAt > now
            /\ (apiToken = ZeroToken \/ apiToken.ExpiresAt = now) =>
                   req'.status = StatusServiceUnavailable]_vars
    /\ [][(apiToken = ZeroToken /\ apiToken' # ZeroToken) =>
            AttemptReturns /\ lastErr' = "ok"]_vars
    /\ [][(Arrives /\ apiToken = ZeroToken /\ "ready" \in Range(req'.steps)) =>
            /\ req'.status = StatusServiceUnavailable
            /\ req'.pc = "done" /\ req'.out = <<>>]_vars
    /\ [][(Arrives /\ apiToken = ZeroToken) => req'.pc = "done" /\ req'.out = <<>>]_vars

C14_Witness ==
    /\ OnReadyRoute /\ req.status = StatusServiceUnavailable
    /\ apiToken.Token # "" /\ apiToken.ExpiresAt = now /\ now > 0

\* C15: once its context is cancelled Start returns, time and the select
\* being fair, whatever timer, tick or retry is pending; having returned it
\* stays stopped, starts no exchange and leaves the token store as it is.
C15_CancelStops ==
    /\ cancelled ~> pc = "stopped"
    /\ [][pc = "stopped" =>
            /\ pc' = "stopped" /\ apiToken' = apiToken
            /\ UNCHANGED <<lastEvent, lastErr, lastBody, first, tickPending>>]_vars
    /\ [](pc = "stopped" => cancelled /\ lastEvent = "done")

C15_Witness ==
    /\ pc = "stopped" /\ retry > 0 /\ tickPending /\ lastErr \in Failures
    /\ apiToken # ZeroToken

\* C16: the token store is not written between a request's readiness check
\* and its reading of the token for the outbound header, so that the value it
\* forwards is that of the very token its readiness check found valid.
C16_ForwardsObservedToken ==
    [][(req.ready = "valid" /\ req.pc = "rewrite") => apiToken' = apiToken]_vars

\* C17: when the scheduled-refresh timer fires, RefreshIn - 10 seconds after
\* a prompt first exchange that succeeded with an expiry at least RefreshIn
\* seconds ahead, the scheduler performs an exchange.
C17_RotatesAtTimer ==
    [][(/\ pc = "select" /\ timeout = 0 /\ timeout' = Nil
        /\ lastEvent = "first" /\ lastErr = "ok" /\ lastBody = "full"
        /\ now = apiToken.RefreshIn - RefreshMargin
        /\ apiToken.ExpiresAt >= now + RefreshMargin) =>
           pc' = "refresh"]_vars

\* C18: at most one of the scheduled-refresh timer and the retry timer is
\* pending.
C18_OneTimerPending ==
    ~(timeout # Nil /\ retry # Nil)

\* What the client put in its Authorization header, the protecting access
\* token when one is configured and the long-lived credential, bare and as
\* bearer values.
ClientSecrets ==
    Range(req.header["Authorization"])
      \cup (IF accessToken = "" THEN {} ELSE {accessToken, "Bearer " \o accessToken})
      \cup {OAuthToken, "Bearer " \o OAuthToken}

\* C19: no header of an outbound upstream request carries the client's
\* Authorization value, the protecting access token or the long-lived
\* credential; the long-lived credential goes to the issuance endpoint; and
\* the outbound Authorization header is the same whatever Authorization
\* value the client sent.
C19_CredentialsStayApart ==
    /\ Forwarded =>
          /\ \A k \in HeaderNames : Range(req.out[1][k]) \cap ClientSecrets = {}
          /\ Len(OutAuth) = 1
    /\ RefreshRequest.url = "OAuthTokenEndpoint"
    /\ RefreshRequest.header["Authorization"] = <<"Bearer " \o OAuthToken>>
    /\ \A a \in ClientAuths :
          CustomHeaders(ClientHeader(a))["Authorization"]
            = CustomHeaders(ClientHeader(<<>>))["Authorization"]

C19_Witness ==
    /\ Forwarded /\ accessToken # ""
    /\ req.header["Authorization"] = <<"Bearer " \o accessToken>>
    /\ OutAuth = <<"Bearer t1">>

\* C20: in the revision src/main.go a request about to call Ready() or
\* Token() finds the mutex free, and spends no time waiting for it, also
\* while an exchange is in flight.
C20_HandlersNeverWaitOnExchange ==
    /\ mainGo.h \in {"Ready", "Token"} => mainGo.mu = "unlocked"
    /\ mainGo.waited = 0
====
